---- MODULE Spec2Model ----
(***************************************************************************)
(* A model of algebra::Matrix<T, Order> (sparse_matrix.hpp / .cpp): a      *)
(* sparse matrix that is either uncompressed (an ordered map from (i,j) to *)
(* a value) or compressed (the three CSR/CSC vectors inner, outer, data).  *)
(*                                                                         *)
(* C++ containers are 0-based, TLA+ sequences 1-based: At(s, k) reads the  *)
(* element the code writes s[k].  The element type T is modelled by small  *)
(* integers, T{} (the additive identity) by 0.                             *)
(***************************************************************************)
EXTENDS Integers, Sequences, FiniteSets, TLC

\* ---------------------------------------------------------------- bounds
\* Indices passed to the accessors range over 0..MaxIdx.
MaxIdx == 1
\* A value of the model is T{} (0) or MaxVal.
MaxVal == 1
\* The uncompressed map holds at most MaxEntries entries.
MaxEntries == 2

\* std::numeric_limits<std::size_t>::max(), scaled down to 16 bits (the
\* model checker's integers are 32 bits wide); every index of the model is
\* far below it.
SIZE_MAX == 65535

Idx == 0..MaxIdx
Dim == 0..(MaxIdx + 1)
Val == {0, MaxVal}
StorageOrder == {"RowOrdering", "ColumnOrdering"}

VARIABLES
    order,              \* the template parameter Order of this matrix
    compressed,         \* bool compressed
    numrows,            \* std::size_t numrows
    numcols,            \* std::size_t numcols
    uncompressed_data,  \* std::map<std::array<size_t,2>, T, CompareHelper<Order>>
    compressed_inner,   \* std::vector<std::size_t>
    compressed_outer,   \* std::vector<std::size_t>
    compressed_data,    \* std::vector<T>
    last                \* the last call made on the matrix and how it ended

vars == <<order, compressed, numrows, numcols, uncompressed_data,
          compressed_inner, compressed_outer, compressed_data, last>>

\* ---------------------------------------------------------------- helpers
At(s, k) == s[k + 1]

Min(S) == CHOOSE x \in S : \A y \in S : x <= y

Max2(a, b) == IF a >= b THEN a ELSE b

EmptyMap == [c \in {} |-> 0]

\* std::map::operator[] followed by an assignment: key -> v, the other
\* entries kept.
Put(map, key, v) ==
    [c \in (DOMAIN map) \cup {key} |-> IF c = key THEN v ELSE map[c]]

\* The matrix object as one value.
M ==
    [compressed        |-> compressed,
     numrows           |-> numrows,
     numcols           |-> numcols,
     uncompressed_data |-> uncompressed_data,
     compressed_inner  |-> compressed_inner,
     compressed_outer  |-> compressed_outer,
     compressed_data   |-> compressed_data]

\* The matrix object after the step.
MNext ==
    [compressed        |-> compressed',
     numrows           |-> numrows',
     numcols           |-> numcols',
     uncompressed_data |-> uncompressed_data',
     compressed_inner  |-> compressed_inner',
     compressed_outer  |-> compressed_outer',
     compressed_data   |-> compressed_data']

Install(m) ==
    /\ compressed' = m.compressed
    /\ numrows' = m.numrows
    /\ numcols' = m.numcols
    /\ uncompressed_data' = m.uncompressed_data
    /\ compressed_inner' = m.compressed_inner
    /\ compressed_outer' = m.compressed_outer
    /\ compressed_data' = m.compressed_data

\* Matrix(rows, cols): compressed(false), numrows(rows), numcols(cols).
Matrix(rows, cols) ==
    [compressed        |-> FALSE,
     numrows           |-> rows,
     numcols           |-> cols,
     uncompressed_data |-> EmptyMap,
     compressed_inner  |-> <<>>,
     compressed_outer  |-> <<>>,
     compressed_data   |-> <<>>]

is_compressed(m) == m.compressed

\* ---------------------------------------------------------------- ordering
\* CompareHelper<Order>::operator(): lexicographic, the major axis first.
CompareHelper(o, lhs, rhs) ==
    IF o = "RowOrdering"
    THEN lhs[1] < rhs[1] \/ (lhs[1] = rhs[1] /\ lhs[2] < rhs[2])
    ELSE lhs[2] < rhs[2] \/ (lhs[2] = rhs[2] /\ lhs[1] < rhs[1])

\* The keys of the map in iteration order (begin() .. end()).
RECURSIVE MapKeys(_, _)
MapKeys(o, S) ==
    IF S = {} THEN <<>>
    ELSE LET first == CHOOSE k \in S : \A x \in S \ {k} : CompareHelper(o, k, x)
         IN  <<first>> \o MapKeys(o, S \ {first})

\* std::map::lower_bound(key): the position of the first key not less than
\* key, as a 0-based offset from begin().
lower_bound(o, keys, key) ==
    Cardinality({p \in 1..Len(keys) : CompareHelper(o, keys[p], key)})

\* std::map::upper_bound(key): the position of the first key greater than key.
upper_bound(o, keys, key) ==
    Cardinality({p \in 1..Len(keys) : ~CompareHelper(o, key, keys[p])})

\* ---------------------------------------------------------------- resize
resize(m, rows, cols) ==
    IF ~is_compressed(m)
    THEN [m EXCEPT !.numrows = rows, !.numcols = cols]
    ELSE m

\* ---------------------------------------------------------------- accessors
\* compressed_access with the search started one slot late.
compressed_access_skip_first(m, i, j) ==
    LET row_start == At(m.compressed_inner, i)
        row_end   == At(m.compressed_inner, i + 1)
        hits      == {k \in (row_start + 1)..(row_end - 1) : At(m.compressed_outer, k) = j}
    IN  IF hits = {} THEN row_end ELSE Min(hits)

\* compressed_access(i, j): std::find of j in outer[inner[i] .. inner[i+1]);
\* the result is the iterator as an offset from compressed_outer.begin(),
\* inner[i+1] when j is not there.
compressed_access(m, i, j) ==
    LET row_start == At(m.compressed_inner, i)
        row_end   == At(m.compressed_inner, i + 1)
        hits      == {k \in row_start..(row_end - 1) : At(m.compressed_outer, k) = j}
    IN  IF hits = {} THEN row_end ELSE Min(hits)

NoRef == [kind |-> "none", at |-> <<>>]

\* T& operator()(i, j), the branch taken when the matrix is uncompressed.
operator_call_uncompressed(m, i, j) ==
    LET m1 == IF i >= m.numrows \/ j >= m.numcols THEN resize(m, i, j) ELSE m
        m2 == [m1 EXCEPT !.uncompressed_data =
                   IF <<i, j>> \in DOMAIN @ THEN @ ELSE Put(@, <<i, j>>, 0)]
    IN  [m |-> m2, err |-> "none", ref |-> [kind |-> "map", at |-> <<i, j>>]]

\* The compressed branch without the test for a missing entry: the reference
\* is formed from the iterator whatever std::find returned.
operator_call_compressed_no_check(o, m, i, j) ==
    IF i >= m.numrows \/ j >= m.numcols
    THEN [m |-> m, err |-> "out_of_range", ref |-> NoRef]
    ELSE LET it == IF o = "RowOrdering"
                   THEN compressed_access(m, i, j)
                   ELSE compressed_access(m, j, i)
         IN  [m |-> m, err |-> "none", ref |-> [kind |-> "vec", at |-> <<it>>]]

\* The compressed branch with the index taken from the start of the stripe
\* instead of compressed_outer.begin().
operator_call_compressed_stripe_index(o, m, i, j) ==
    IF i >= m.numrows \/ j >= m.numcols
    THEN [m |-> m, err |-> "out_of_range", ref |-> NoRef]
    ELSE LET it == IF o = "RowOrdering"
                   THEN compressed_access(m, i, j)
                   ELSE compressed_access(m, j, i)
             row_start == IF o = "RowOrdering"
                          THEN At(m.compressed_inner, i)
                          ELSE At(m.compressed_inner, j)
             row_end == IF o = "RowOrdering"
                        THEN At(m.compressed_inner, i + 1)
                        ELSE At(m.compressed_inner, j + 1)
         IN  IF it # row_end
             THEN [m |-> m, err |-> "none",
                   ref |-> [kind |-> "vec", at |-> <<it - row_start>>]]
             ELSE [m |-> m, err |-> "out_of_range", ref |-> NoRef]

\* T& operator()(i, j), the branch taken when the matrix is compressed.
operator_call_compressed(o, m, i, j) ==
    IF i >= m.numrows \/ j >= m.numcols
    THEN [m |-> m, err |-> "out_of_range", ref |-> NoRef]
    ELSE LET it == IF o = "RowOrdering"
                   THEN compressed_access(m, i, j)
                   ELSE compressed_access(m, j, i)
             row_end == IF o = "RowOrdering"
                        THEN At(m.compressed_inner, i + 1)
                        ELSE At(m.compressed_inner, j + 1)
         IN  IF it # row_end
             THEN [m |-> m, err |-> "none", ref |-> [kind |-> "vec", at |-> <<it>>]]
             ELSE [m |-> m, err |-> "out_of_range", ref |-> NoRef]

\* T& operator()(i, j): the matrix after the call, the exception thrown if
\* any, and the reference returned.
operator_call(o, m, i, j) ==
    IF ~is_compressed(m)
    THEN operator_call_uncompressed(m, i, j)
    ELSE operator_call_compressed(o, m, i, j)

\* The caller's assignment through the reference operator() returned.
Assign(m, ref, v) ==
    IF ref.kind = "map"
    THEN [m EXCEPT !.uncompressed_data[ref.at] = v]
    ELSE [m EXCEPT !.compressed_data[ref.at[1] + 1] = v]

\* The read-only accessor with the bounds test on the row index only.
operator_call_const_rows_only(o, m, i, j) ==
    IF i >= m.numrows
    THEN [err |-> "out_of_range", val |-> 0]
    ELSE IF ~is_compressed(m)
         THEN IF <<i, j>> \in DOMAIN m.uncompressed_data
              THEN [err |-> "none", val |-> m.uncompressed_data[<<i, j>>]]
              ELSE [err |-> "none", val |-> 0]
         ELSE LET it == IF o = "RowOrdering"
                        THEN compressed_access(m, i, j)
                        ELSE compressed_access(m, j, i)
                  row_end == IF o = "RowOrdering"
                             THEN At(m.compressed_inner, i + 1)
                             ELSE At(m.compressed_inner, j + 1)
              IN  IF it # row_end
                  THEN [err |-> "none", val |-> At(m.compressed_data, it)]
                  ELSE [err |-> "none", val |-> 0]

\* const T& operator()(i, j) const: the exception thrown if any, and the
\* value referred to.
operator_call_const(o, m, i, j) ==
    IF i >= m.numrows \/ j >= m.numcols
    THEN [err |-> "out_of_range", val |-> 0]
    ELSE IF ~is_compressed(m)
         THEN IF <<i, j>> \in DOMAIN m.uncompressed_data
              THEN [err |-> "none", val |-> m.uncompressed_data[<<i, j>>]]
              ELSE [err |-> "none", val |-> 0]
         ELSE LET it == IF o = "RowOrdering"
                        THEN compressed_access(m, i, j)
                        ELSE compressed_access(m, j, i)
                  row_end == IF o = "RowOrdering"
                             THEN At(m.compressed_inner, i + 1)
                             ELSE At(m.compressed_inner, j + 1)
              IN  IF it # row_end
                  THEN [err |-> "none", val |-> At(m.compressed_data, it)]
                  ELSE [err |-> "none", val |-> 0]

\* ---------------------------------------------------------------- compress
\* One pass of the loop with count++ left out.
compress_stripe_stale_count(o, data, keys, idx, acc) ==
    LET start  == IF o = "RowOrdering"
                  THEN lower_bound(o, keys, <<idx, 0>>)
                  ELSE lower_bound(o, keys, <<0, idx>>)
        end    == IF o = "RowOrdering"
                  THEN upper_bound(o, keys, <<idx, SIZE_MAX>>)
                  ELSE upper_bound(o, keys, <<SIZE_MAX, idx>>)
        stripe == SubSeq(keys, start + 1, end)
    IN  [inner |-> Append(acc.inner, acc.count),
         outer |-> acc.outer \o
                   [p \in 1..Len(stripe) |->
                       IF o = "RowOrdering" THEN stripe[p][2] ELSE stripe[p][1]],
         data  |-> acc.data \o [p \in 1..Len(stripe) |-> data[stripe[p]]],
         count |-> acc.count]

\* The body of one pass of while(idx != sz): inner gets count, then the
\* stripe [lower_bound, upper_bound) of the map is appended to outer and data.
compress_stripe(o, data, keys, idx, acc) ==
    LET start  == IF o = "RowOrdering"
                  THEN lower_bound(o, keys, <<idx, 0>>)
                  ELSE lower_bound(o, keys, <<0, idx>>)
        end    == IF o = "RowOrdering"
                  THEN upper_bound(o, keys, <<idx, SIZE_MAX>>)
                  ELSE upper_bound(o, keys, <<SIZE_MAX, idx>>)
        stripe == SubSeq(keys, start + 1, end)
    IN  [inner |-> Append(acc.inner, acc.count),
         outer |-> acc.outer \o
                   [p \in 1..Len(stripe) |->
                       IF o = "RowOrdering" THEN stripe[p][2] ELSE stripe[p][1]],
         data  |-> acc.data \o [p \in 1..Len(stripe) |-> data[stripe[p]]],
         count |-> acc.count + Len(stripe)]

RECURSIVE compress_loop(_, _, _, _, _, _)
compress_loop(o, data, keys, sz, idx, acc) ==
    IF idx = sz
    THEN [acc EXCEPT !.inner = Append(@, acc.count)]
    ELSE compress_loop(o, data, keys, sz, idx + 1,
                       compress_stripe(o, data, keys, idx, acc))

\* compress without the early return for a matrix that is compressed already.
compress_again(o, m) ==
    LET sz   == IF o = "RowOrdering" THEN m.numrows ELSE m.numcols
        keys == MapKeys(o, DOMAIN m.uncompressed_data)
        r    == compress_loop(o, m.uncompressed_data, keys, sz, 0,
                              [inner |-> <<>>, outer |-> <<>>,
                               data |-> <<>>, count |-> 0])
    IN  [m EXCEPT !.compressed_inner = r.inner,
                  !.compressed_outer = r.outer,
                  !.compressed_data = r.data,
                  !.uncompressed_data = EmptyMap,
                  !.compressed = TRUE]

compress(o, m) ==
    IF is_compressed(m) THEN m
    ELSE LET sz   == IF o = "RowOrdering" THEN m.numrows ELSE m.numcols
             keys == MapKeys(o, DOMAIN m.uncompressed_data)
             r    == compress_loop(o, m.uncompressed_data, keys, sz, 0,
                                   [inner |-> <<>>, outer |-> <<>>,
                                    data |-> <<>>, count |-> 0])
         IN  [m EXCEPT !.compressed_inner = r.inner,
                       !.compressed_outer = r.outer,
                       !.compressed_data = r.data,
                       !.uncompressed_data = EmptyMap,
                       !.compressed = TRUE]

\* `auto coords = start->first` with start = uncompressed_data.begin(): on an
\* empty map this dereferences end().
compress_derefs_end(m) ==
    ~is_compressed(m) /\ DOMAIN m.uncompressed_data = {}

\* ---------------------------------------------------------------- uncompress
\* The two nested loops: stripe s, then k from inner[s] up to inner[s+1].
RECURSIVE uncompress_loop(_, _, _, _, _, _)
uncompress_loop(o, m, sz, s, k, map) ==
    IF s >= sz THEN map
    ELSE IF k < At(m.compressed_inner, s + 1)
         THEN uncompress_loop(o, m, sz, s, k + 1,
                  Put(map,
                      IF o = "RowOrdering"
                      THEN <<s, At(m.compressed_outer, k)>>
                      ELSE <<At(m.compressed_outer, k), s>>,
                      At(m.compressed_data, k)))
         ELSE uncompress_loop(o, m, sz, s + 1,
                  IF s + 1 < sz THEN At(m.compressed_inner, s + 1) ELSE 0, map)

uncompress(o, m) ==
    IF ~is_compressed(m) THEN m
    ELSE LET sz == IF o = "RowOrdering" THEN m.numrows ELSE m.numcols
         IN  [m EXCEPT !.uncompressed_data =
                           uncompress_loop(o, m, sz, 0,
                               IF sz > 0 THEN At(m.compressed_inner, 0) ELSE 0,
                               EmptyMap),
                       !.compressed_inner = <<>>,
                       !.compressed_outer = <<>>,
                       !.compressed_data = <<>>,
                       !.compressed = FALSE]

\* ---------------------------------------------------------------- read
\* A Matrix Market file as read() sees it: whether it opens, whether its
\* first line starts with %%MatrixMarket, whether the size line has three
\* tokens, the sizes, and the remaining lines (a line is ok when its three
\* tokens parse as numbers).
Line(r, c, v) == [ok |-> TRUE, r |-> r, c |-> c, v |-> v]
BadLine == [ok |-> FALSE, r |-> 0, c |-> 0, v |-> 0]

File(opens, banner, sizeok, R, C, lines) ==
    [open |-> opens, banner |-> banner, sizeok |-> sizeok,
     R |-> R, C |-> C, lines |-> lines]

NoFile == File(FALSE, FALSE, FALSE, 0, 0, <<>>)

Files ==
    LET N == MaxIdx + 1
        one == <<Line(1, 1, MaxVal)>>
        two == <<Line(1, 1, MaxVal), Line(N, N - 1, MaxVal)>>
    IN  {NoFile,
         File(TRUE, TRUE, FALSE, 0, 0, <<>>),
         File(TRUE, TRUE, TRUE, N, N, <<>>),
         File(TRUE, TRUE, TRUE, N, N, one),
         File(TRUE, TRUE, TRUE, N, N, two),
         File(TRUE, TRUE, TRUE, N, N - 1, two),
         File(TRUE, FALSE, TRUE, N, N, two),
         File(TRUE, TRUE, TRUE, N, N, one \o <<BadLine>>)}

\* read_lines with the indices stored as the file gives them, 1-based.
RECURSIVE read_lines_one_based(_, _, _, _)
read_lines_one_based(m, lines, p, diag) ==
    IF p > Len(lines) THEN [m |-> m, err |-> "none", diag |-> diag]
    ELSE IF ~lines[p].ok
         THEN [m |-> m, err |-> "invalid_argument", diag |-> diag]
         ELSE read_lines_one_based(
                  [m EXCEPT !.uncompressed_data =
                       Put(@, <<lines[p].r % (SIZE_MAX + 1),
                                lines[p].c % (SIZE_MAX + 1)>>, lines[p].v)],
                  lines, p + 1, diag)

\* The while(std::getline(file, line)) loop over the element lines.
RECURSIVE read_lines(_, _, _, _)
read_lines(m, lines, p, diag) ==
    IF p > Len(lines) THEN [m |-> m, err |-> "none", diag |-> diag]
    ELSE IF ~lines[p].ok
         THEN [m |-> m, err |-> "invalid_argument", diag |-> diag]
         ELSE read_lines(
                  [m EXCEPT !.uncompressed_data =
                       Put(@, <<(lines[p].r - 1) % (SIZE_MAX + 1),
                                (lines[p].c - 1) % (SIZE_MAX + 1)>>, lines[p].v)],
                  lines, p + 1, diag)

\* read(file_name): the matrix after the call, the exception thrown if any,
\* and the message written to std::cerr.
read(m, f) ==
    IF ~f.open THEN [m |-> m, err |-> "none", diag |-> "cannot_open"]
    ELSE LET diag == IF f.banner THEN "none" ELSE "not_matrix_market"
         IN  IF ~f.sizeok
             THEN [m |-> m, err |-> "runtime_error", diag |-> diag]
             ELSE read_lines(resize(m, f.R, f.C), f.lines, 1, diag)

\* ---------------------------------------------------------------- product
\* The stored values of one stripe of a compressed matrix, slots
\* inner[s] .. inner[s+1]-1, with the outer index of each.
packed_stripe(m, s) ==
    [p \in 1..(At(m.compressed_inner, s + 1) - At(m.compressed_inner, s)) |->
        [outer |-> At(m.compressed_outer, At(m.compressed_inner, s) + p - 1),
         value |-> At(m.compressed_data, At(m.compressed_inner, s) + p - 1)]]

\* for (const auto& [coords, value] : matrix.uncompressed_data)
\*     result[coords[0]] += value * vec[coords[1]];
\* An index outside result or vec is an access outside the vector: ub.
RECURSIVE times_uncompressed(_, _, _, _, _)
times_uncompressed(data, keys, vec, p, acc) ==
    IF p > Len(keys) THEN acc
    ELSE LET i == keys[p][1]
             j == keys[p][2]
         IN  times_uncompressed(data, keys, vec, p + 1,
                 IF i >= Len(acc.y) \/ j >= Len(vec)
                 THEN [acc EXCEPT !.ub = TRUE]
                 ELSE [acc EXCEPT !.y[i + 1] = @ + data[keys[p]] * At(vec, j)])

\* One stripe of the compressed kernels, entry p of the stripe onwards:
\* CSR adds value * vec[outer] to result[s], CSC adds value * vec[s] to
\* result[outer].
RECURSIVE times_stripe(_, _, _, _, _, _)
times_stripe(o, stripe, vec, s, p, acc) ==
    IF p > Len(stripe) THEN acc
    ELSE LET i == IF o = "RowOrdering" THEN s ELSE stripe[p].outer
             j == IF o = "RowOrdering" THEN stripe[p].outer ELSE s
         IN  times_stripe(o, stripe, vec, s, p + 1,
                 IF i >= Len(acc.y) \/ j >= Len(vec)
                 THEN [acc EXCEPT !.ub = TRUE]
                 ELSE [acc EXCEPT !.y[i + 1] = @ + stripe[p].value * At(vec, j)])

\* The outer loop of the compressed kernels over the stripes s .. sz-1.
RECURSIVE times_compressed(_, _, _, _, _, _)
times_compressed(o, m, vec, sz, s, acc) ==
    IF s >= sz THEN acc
    ELSE times_compressed(o, m, vec, sz, s + 1,
             times_stripe(o, packed_stripe(m, s), vec, s, 1, acc))

\* operator* with the result sized by the column count.
operator_times_sized_by_columns(o, m, vec) ==
    LET zero == [err |-> "none", ub |-> FALSE, y |-> [i \in 1..m.numcols |-> 0]]
    IN  IF ~is_compressed(m)
        THEN times_uncompressed(m.uncompressed_data,
                                MapKeys(o, DOMAIN m.uncompressed_data), vec, 1, zero)
        ELSE times_compressed(o, m, vec,
                              IF o = "RowOrdering" THEN m.numrows ELSE m.numcols,
                              0, zero)

\* operator*(matrix, vec): result starts as numrows zeros; ub tells that the
\* kernel read or wrote outside a vector on the way.
operator_times(o, m, vec) ==
    LET zero == [err |-> "none", ub |-> FALSE, y |-> [i \in 1..m.numrows |-> 0]]
    IN  IF ~is_compressed(m)
        THEN times_uncompressed(m.uncompressed_data,
                                MapKeys(o, DOMAIN m.uncompressed_data), vec, 1, zero)
        ELSE times_compressed(o, m, vec,
                              IF o = "RowOrdering" THEN m.numrows ELSE m.numcols,
                              0, zero)

\* The vector operator*(matrix, Matrix) builds from its right operand: the
\* first numrows slots of compressed_data, or the values of the map in its
\* order.  A slot beyond compressed_data is a read outside the vector: the
\* value pushed is then not determined (0 stands for it) and ub is set.
vecColumn(o, B) ==
    IF is_compressed(B)
    THEN [ub  |-> B.numrows > Len(B.compressed_data),
          vec |-> [i \in 1..B.numrows |->
                      IF i <= Len(B.compressed_data) THEN B.compressed_data[i] ELSE 0]]
    ELSE LET keys == MapKeys(o, DOMAIN B.uncompressed_data)
         IN  [ub  |-> FALSE,
              vec |-> [p \in 1..Len(keys) |-> B.uncompressed_data[keys[p]]]]

\* operator*(matrix, Matrix)
operator_times_matrix(o, m, B) ==
    IF B.numcols # 1
    THEN [err |-> "invalid_argument", ub |-> FALSE, y |-> <<>>]
    ELSE LET col == vecColumn(o, B)
             r   == operator_times(o, m, col.vec)
         IN  [r EXCEPT !.ub = @ \/ col.ub]

\* ---------------------------------------------------------------- norm
NormType == {"One", "Infinity", "Frobenius"}

\* std::abs
Abs(x) == IF x < 0 THEN 0 - x ELSE x

\* std::sqrt, kept symbolic: the square root of n.
Sqrt(n) == [sqrt |-> n]

\* complexLess: the comparison of the magnitudes.
complexLess(lhs, rhs) == Abs(lhs) < Abs(rhs)

\* std::max(a, b, complexLess): b when a is less than b, a otherwise.
std_max(a, b) == IF complexLess(a, b) THEN b ELSE a

\* *std::max_element(norms.begin(), norms.end(), complexLess): the first
\* greatest element; on an empty vector the iterator is end() and the
\* dereference is outside the vector (ub, 0 stands for the value read).
max_element(norms) ==
    IF Len(norms) = 0 THEN [ub |-> TRUE, val |-> 0]
    ELSE [ub  |-> FALSE,
          val |-> norms[CHOOSE p \in 1..Len(norms) :
                            /\ \A q \in 1..Len(norms) : ~complexLess(norms[p], norms[q])
                            /\ \A q \in 1..(p - 1) : complexLess(norms[q], norms[p])]]

\* The stored entries in the order the kernel walks them: the map in its
\* order, or the slots of the stripes 0 .. major-1 of the compressed vectors.
\* Each entry is its stripe, its index within the stripe and its value.
norm_entries(o, m) ==
    IF ~is_compressed(m)
    THEN LET keys == MapKeys(o, DOMAIN m.uncompressed_data)
         IN  [p \in 1..Len(keys) |->
                 [major |-> IF o = "RowOrdering" THEN keys[p][1] ELSE keys[p][2],
                  minor |-> IF o = "RowOrdering" THEN keys[p][2] ELSE keys[p][1],
                  value |-> m.uncompressed_data[keys[p]]]]
    ELSE LET sz   == IF o = "RowOrdering" THEN m.numrows ELSE m.numcols
             from == IF sz > 0 THEN At(m.compressed_inner, 0) ELSE 0
             to   == IF sz > 0 THEN At(m.compressed_inner, sz) ELSE 0
         IN  [p \in 1..(to - from) |->
                 [major |-> CHOOSE s \in 0..(sz - 1) :
                                /\ At(m.compressed_inner, s) <= from + p - 1
                                /\ from + p - 1 < At(m.compressed_inner, s + 1),
                  minor |-> At(m.compressed_outer, from + p - 1),
                  value |-> At(m.compressed_data, from + p - 1)]]

\* norm_value += std::abs(value) * std::abs(value) over the entries.
RECURSIVE norm_squares(_, _)
norm_squares(entries, p) ==
    IF p > Len(entries) THEN 0
    ELSE Abs(entries[p].value) * Abs(entries[p].value) + norm_squares(entries, p + 1)

\* norm_dense with std::abs left out: norms[minor] += value.
RECURSIVE norm_dense_signed(_, _, _)
norm_dense_signed(entries, p, acc) ==
    IF p > Len(entries) THEN acc
    ELSE norm_dense_signed(entries, p + 1,
             IF entries[p].minor >= Len(acc.norms)
             THEN [acc EXCEPT !.ub = TRUE]
             ELSE [acc EXCEPT !.norms[entries[p].minor + 1] = @ + entries[p].value])

\* norms[minor] += std::abs(value) over the entries, norms being a vector
\* of fixed size; a minor index outside it is a write outside the vector.
RECURSIVE norm_dense(_, _, _)
norm_dense(entries, p, acc) ==
    IF p > Len(entries) THEN acc
    ELSE norm_dense(entries, p + 1,
             IF entries[p].minor >= Len(acc.norms)
             THEN [acc EXCEPT !.ub = TRUE]
             ELSE [acc EXCEPT !.norms[entries[p].minor + 1] = @ + Abs(entries[p].value)])

\* The sum of std::abs(value) over the entries of stripe s.
RECURSIVE stripe_sum(_, _, _)
stripe_sum(entries, s, p) ==
    IF p > Len(entries) THEN 0
    ELSE (IF entries[p].major = s THEN Abs(entries[p].value) ELSE 0)
         + stripe_sum(entries, s, p + 1)

\* for (s = 0; s < sz; ++s) norm_value = std::max(norm_value, sum of stripe s)
RECURSIVE norm_stripes(_, _, _, _)
norm_stripes(entries, sz, s, norm_value) ==
    IF s >= sz THEN norm_value
    ELSE norm_stripes(entries, sz, s + 1,
                      std_max(norm_value, stripe_sum(entries, s, 1)))

\* norm<N>(): the value returned (no kernel throws), and whether the kernel
\* went outside a vector on the way.  The kernel that sums along the major axis walks the
\* stripes; the one that sums along the minor axis fills a dense vector.
norm(o, m, N) ==
    LET entries == norm_entries(o, m)
        along   == IF o = "RowOrdering" THEN "Infinity" ELSE "One"
        major   == IF o = "RowOrdering" THEN m.numrows ELSE m.numcols
        minor   == IF o = "RowOrdering" THEN m.numcols ELSE m.numrows
    IN  IF N = "Frobenius"
        THEN [err |-> "none", ub |-> FALSE, val |-> Sqrt(norm_squares(entries, 1))]
        ELSE IF N = along
             THEN [err |-> "none", ub |-> FALSE,
                   val |-> norm_stripes(entries, major, 0, 0)]
             ELSE LET d == norm_dense(entries, 1,
                               [ub |-> FALSE, norms |-> [i \in 1..minor |-> 0]])
                      e == max_element(d.norms)
                  IN  [err |-> "none", ub |-> d.ub \/ e.ub, val |-> e.val]

\* ---------------------------------------------------------------- actions
\* The read-only accessor changes nothing and is the operator above, applied
\* to the matrix of the state; the actions here are the calls that can change
\* the object, the calls of the kernels follow further down.
\* What is kept of a call: the operation and the exception it ended with.
Call(op, err) == [op |-> op, err |-> err]

Init ==
    /\ order \in StorageOrder
    /\ \E rows \in Dim, cols \in Dim :
          /\ compressed = Matrix(rows, cols).compressed
          /\ numrows = Matrix(rows, cols).numrows
          /\ numcols = Matrix(rows, cols).numcols
          /\ uncompressed_data = Matrix(rows, cols).uncompressed_data
          /\ compressed_inner = Matrix(rows, cols).compressed_inner
          /\ compressed_outer = Matrix(rows, cols).compressed_outer
          /\ compressed_data = Matrix(rows, cols).compressed_data
          /\ last = Call("new", "none")

\* The process is gone once a call has aborted it.
Running == last.err # "abort"

\* A(i, j) = v
Set(i, j, v) ==
    LET r == operator_call(order, M, i, j)
    IN  /\ Running
        /\ Cardinality(DOMAIN r.m.uncompressed_data) <= MaxEntries
        /\ Install(IF r.err = "none" THEN Assign(r.m, r.ref, v) ELSE r.m)
        /\ last' = Call("set", r.err)
        /\ UNCHANGED order

\* A.compress(); the dereference of end() on an empty map is undefined
\* behaviour: the value read is never used, so the call either goes on as if
\* nothing had happened or (checked iterators) aborts the process.
CompressDone ==
    /\ Running
    /\ Install(compress(order, M))
    /\ last' = Call("compress", "none")
    /\ UNCHANGED order

CompressAbort ==
    /\ Running
    /\ compress_derefs_end(M)
    /\ last' = Call("compress", "abort")
    /\ UNCHANGED <<order, compressed, numrows, numcols, uncompressed_data,
                   compressed_inner, compressed_outer, compressed_data>>

Compress == CompressDone \/ CompressAbort

\* A.uncompress()
Uncompress ==
    /\ Running
    /\ Install(uncompress(order, M))
    /\ last' = Call("uncompress", "none")
    /\ UNCHANGED order

\* A.resize(rows, cols)
Resize(rows, cols) ==
    /\ Running
    /\ Install(resize(M, rows, cols))
    /\ last' = Call("resize", "none")
    /\ UNCHANGED order

\* A.read(file_name)
Read(f) ==
    LET r == read(M, f)
    IN  /\ Running
        /\ Cardinality(DOMAIN r.m.uncompressed_data) <= MaxEntries
        /\ Install(r.m)
        /\ last' = Call("read", r.err)
        /\ UNCHANGED order

SetAny == \E i \in Idx, j \in Idx, v \in Val : Set(i, j, v)
ResizeAny == \E rows \in Dim, cols \in Dim : Resize(rows, cols)
ReadAny == \E f \in Files : Read(f)

Next ==
    \/ SetAny
    \/ Compress
    \/ Uncompress
    \/ ResizeAny
    \/ ReadAny

Spec == Init /\ [][Next]_vars

\* The constructor, the mutable accessor, compress and uncompress only: no
\* explicit resize, no read.
NextAccess ==
    \/ SetAny
    \/ Compress
    \/ Uncompress

SpecAccess == Init /\ [][NextAccess]_vars

\* ---------------------------------------------------------------- main
\* A(i, j) = v for each <<i, j, v>> of writes, in order.
RECURSIVE assign_all(_, _, _, _)
assign_all(o, m, writes, p) ==
    IF p > Len(writes) THEN m
    ELSE LET r == operator_call(o, m, writes[p][1], writes[p][2])
         IN  assign_all(o, Assign(r.m, r.ref, writes[p][3]), writes, p + 1)

\* The small test case of main(): A(5,3) and its eight writes, and v.
main_A(o) ==
    assign_all(o, Matrix(5, 3),
               <<<<0, 0, 1>>, <<0, 2, 3>>, <<1, 0, 4>>, <<1, 1, 5>>,
                 <<2, 1, 8>>, <<2, 2, 6>>, <<3, 1, 1>>, <<4, 0, 2>>>>, 1)

main_v == <<1, 2, 3>>

\* ---------------------------------------------------------------- kernels
\* The const kernels (product, norm) are called on the matrix of the state
\* and leave it as it is; what is kept of the call is how it ended.
\* The ways a kernel call can end: as its result says when every access
\* stayed inside its vector; otherwise the behaviour is undefined, and the
\* call aborts the process or returns (a value that nothing determines).
Ends(r) == IF r.ub THEN {"abort", "none"} ELSE {r.err}

\* The elements of the matrices of the kernels: both signs, so that std::abs
\* matters.
Num == {0 - MaxVal, 0, MaxVal}

\* The vectors handed to operator*: every length up to the largest column
\* count.
Vectors == UNION {[1..n -> Val] : n \in 0..(MaxIdx + 1)}

\* B(i, 0) = v for the rows i of S in increasing order.
RECURSIVE fill_column(_, _, _, _)
fill_column(o, B, S, v) ==
    IF S = {} THEN B
    ELSE LET i == Min(S)
             r == operator_call(o, B, i, 0)
         IN  fill_column(o, Assign(r.m, r.ref, v), S \ {i}, v)

\* The right operands handed to operator*(matrix, Matrix): one-column
\* matrices built by the constructor and writes in bounds, compressed or
\* not, and a two-column matrix.
Operands(o) ==
    LET columns == UNION {{fill_column(o, Matrix(n, 1), S, MaxVal) :
                              S \in SUBSET (0..(n - 1))} : n \in Dim}
        built   == columns \cup {Matrix(1, 2)}
    IN  built \cup {compress(o, B) : B \in built}

\* y = A * vec
Times(vec) ==
    LET r == operator_times(order, M, vec)
    IN  /\ Running
        /\ \E err \in Ends(r) : last' = Call("times", err)
        /\ UNCHANGED <<order, compressed, numrows, numcols, uncompressed_data,
                       compressed_inner, compressed_outer, compressed_data>>

\* y = A * B
TimesMatrix(B) ==
    LET r == operator_times_matrix(order, M, B)
    IN  /\ Running
        /\ \E err \in Ends(r) : last' = Call("times_matrix", err)
        /\ UNCHANGED <<order, compressed, numrows, numcols, uncompressed_data,
                       compressed_inner, compressed_outer, compressed_data>>

\* A.norm<N>()
Norm(N) ==
    LET r == norm(order, M, N)
    IN  /\ Running
        /\ \E err \in Ends(r) : last' = Call("norm", err)
        /\ UNCHANGED <<order, compressed, numrows, numcols, uncompressed_data,
                       compressed_inner, compressed_outer, compressed_data>>

SetSigned == \E i \in Idx, j \in Idx, v \in Num : Set(i, j, v)
TimesAny == \E vec \in Vectors : Times(vec)
OperandsRow == Operands("RowOrdering")
OperandsColumn == Operands("ColumnOrdering")
TimesMatrixAny ==
    \E B \in (IF order = "RowOrdering" THEN OperandsRow ELSE OperandsColumn) :
        TimesMatrix(B)
NormAny == \E N \in NormType : Norm(N)

\* The constructor, writes of either sign, compress, uncompress and the
\* kernels.
NextKernel ==
    \/ SetSigned
    \/ Compress
    \/ Uncompress
    \/ TimesAny
    \/ TimesMatrixAny
    \/ NormAny

SpecKernel == Init /\ [][NextKernel]_vars

\* The same with a caller that keeps to the dimensions: it writes inside
\* them (no write reaches the resize of operator()) and multiplies by vectors
\* and one-column matrices of cols elements.
SetInside ==
    \E i \in Idx, j \in Idx, v \in Num :
        /\ i < numrows
        /\ j < numcols
        /\ Set(i, j, v)

TimesFit == \E vec \in [1..numcols -> Val] : Times(vec)

TimesMatrixFit ==
    \E B \in (IF order = "RowOrdering" THEN OperandsRow ELSE OperandsColumn) :
        /\ B.numcols = 1
        /\ B.numrows = numcols
        /\ TimesMatrix(B)

NextInside ==
    \/ SetInside
    \/ Compress
    \/ Uncompress
    \/ TimesFit
    \/ TimesMatrixFit
    \/ NormAny

SpecInside == Init /\ [][NextInside]_vars

\* ---------------------------------------------------------------- observers
\* The read-only accessor on the matrix as it is now / as it is after the step.
get(m, i, j) == operator_call_const(order, m, i, j)

OutOfBounds(m, i, j) == i >= m.numrows \/ j >= m.numcols

\* The number of major stripes of a compressed matrix.
Major(m) == IF order = "RowOrdering" THEN m.numrows ELSE m.numcols
Minor(m) == IF order = "RowOrdering" THEN m.numcols ELSE m.numrows

\* The stripe slot k of the compressed vectors lies in.
StripeOf(m, k) ==
    CHOOSE s \in 0..(Len(m.compressed_inner) - 2) :
        At(m.compressed_inner, s) <= k /\ k < At(m.compressed_inner, s + 1)

\* The coordinates a matrix stores, in whichever representation it is.
PackedCoords(m) ==
    {IF order = "RowOrdering"
     THEN <<StripeOf(m, k), At(m.compressed_outer, k)>>
     ELSE <<At(m.compressed_outer, k), StripeOf(m, k)>> :
        k \in 0..(Len(m.compressed_outer) - 1)}

StoredCoords(m) ==
    IF is_compressed(m) THEN PackedCoords(m) ELSE DOMAIN m.uncompressed_data

\* inner has major+1 offsets, starts at 0, never decreases and ends at the
\* common length of outer and data.
PackedShape(m) ==
    /\ Len(m.compressed_inner) = Major(m) + 1
    /\ At(m.compressed_inner, 0) = 0
    /\ \A s \in 0..(Major(m) - 1) :
          At(m.compressed_inner, s) <= At(m.compressed_inner, s + 1)
    /\ At(m.compressed_inner, Major(m)) = Len(m.compressed_outer)
    /\ Len(m.compressed_outer) = Len(m.compressed_data)

\* Every stripe of outer is strictly increasing and within the minor range.
StripesSorted(m) ==
    \A s \in 0..(Major(m) - 1) :
        \A k \in At(m.compressed_inner, s)..(At(m.compressed_inner, s + 1) - 1) :
            /\ At(m.compressed_outer, k) < Minor(m)
            /\ k + 1 < At(m.compressed_inner, s + 1)
                  => At(m.compressed_outer, k) < At(m.compressed_outer, k + 1)

\* Every stored coordinate lies inside the dimensions.
InBounds(m) == \A c \in StoredCoords(m) : c[1] < m.numrows /\ c[2] < m.numcols

\* f[1] + ... + f[n]
RECURSIVE Sum(_, _)
Sum(f, n) == IF n = 0 THEN 0 ELSE f[n] + Sum(f, n - 1)

\* The greatest of f[1] .. f[n], all of them non-negative.
RECURSIVE Greatest(_, _)
Greatest(f, n) == IF n = 0 THEN 0 ELSE Max2(f[n], Greatest(f, n - 1))

\* The dense product: y[i] is the sum over j of A[i,j] * v[j], A[i,j] being
\* what the read-only accessor returns.
DenseProduct(m, vec) ==
    [i \in 1..m.numrows |->
        Sum([j \in 1..m.numcols |-> get(m, i - 1, j - 1).val * vec[j]], m.numcols)]

\* A product that stayed inside its vectors and returned y.
Product(y) == [err |-> "none", ub |-> FALSE, y |-> y]

\* The products of the small test case of main(), in both storage orders,
\* before and after compress.
S1_products ==
    UNION {{operator_times(o, main_A(o), main_v),
            operator_times(o, compress(o, main_A(o)), main_v)} : o \in StorageOrder}

\* The column of a one-column matrix as a dense vector: v[i] = B(i, 0), the
\* additive identity where nothing is stored.
DenseColumn(o, B) ==
    [i \in 1..B.numrows |-> operator_call_const(o, B, i - 1, 0).val]

\* The greatest over the columns of the sum of the magnitudes in the column.
MaxColumnSum(m) ==
    Greatest([j \in 1..m.numcols |->
                 Sum([i \in 1..m.numrows |-> Abs(get(m, i - 1, j - 1).val)], m.numrows)],
             m.numcols)

\* The greatest over the rows of the sum of the magnitudes in the row.
MaxRowSum(m) ==
    Greatest([i \in 1..m.numrows |->
                 Sum([j \in 1..m.numcols |-> Abs(get(m, i - 1, j - 1).val)], m.numcols)],
             m.numrows)

\* A norm that stayed inside its vectors and returned val.
NormIs(val) == [err |-> "none", ub |-> FALSE, val |-> val]

\* The One and Infinity norms of the small test case of main(), in both
\* storage orders, before and after compress.
S1_norms ==
    UNION {{[One      |-> norm(o, A, "One"),
             Infinity |-> norm(o, A, "Infinity")] :
               A \in {main_A(o), compress(o, main_A(o))}} : o \in StorageOrder}

\* Whenever a norm is called on a matrix whose stored entries are all in
\* bounds, each kernel of norm<One> returns the greatest column sum where there is a column, and
\* each kernel of norm<Infinity> the greatest row sum where there is a row:
\* the kernel of the state, and the kernels of the map and of the compressed
\* vectors under both storage orders of the same matrix.
NormsAreSums ==
    (last.op = "norm" /\ InBounds(M)) =>
        LET expanded == uncompress(order, M)
            csr      == compress("RowOrdering", expanded)
            csc      == compress("ColumnOrdering", expanded)
            one      == NormIs(MaxColumnSum(M))
            infinity == NormIs(MaxRowSum(M))
        IN  /\ numcols > 0 =>
                  /\ norm(order, M, "One") = one
                  /\ norm("RowOrdering", expanded, "One") = one
                  /\ norm("ColumnOrdering", expanded, "One") = one
                  /\ norm("RowOrdering", csr, "One") = one
                  /\ norm("ColumnOrdering", csc, "One") = one
            /\ numrows > 0 =>
                  /\ norm(order, M, "Infinity") = infinity
                  /\ norm("RowOrdering", expanded, "Infinity") = infinity
                  /\ norm("ColumnOrdering", expanded, "Infinity") = infinity
                  /\ norm("RowOrdering", csr, "Infinity") = infinity
                  /\ norm("ColumnOrdering", csc, "Infinity") = infinity

\* A file read() can take without complaint: it opens, has the banner and a
\* size line, and every element line has three numbers, a row in 1..R and a
\* column in 1..C.
WellFormed(f) ==
    /\ f.open
    /\ f.banner
    /\ f.sizeok
    /\ \A p \in 1..Len(f.lines) :
          /\ f.lines[p].ok
          /\ f.lines[p].r \in 1..f.R
          /\ f.lines[p].c \in 1..f.C

\* What a well-formed file says about (i, j), 1-based: the value of its
\* triplet there, 0 when it has none.
Triplet(f, i, j) ==
    IF \E p \in 1..Len(f.lines) : f.lines[p].r = i /\ f.lines[p].c = j
    THEN f.lines[CHOOSE p \in 1..Len(f.lines) :
                     f.lines[p].r = i /\ f.lines[p].c = j].v
    ELSE 0

\* read(m, f) ended normally with an uncompressed matrix of f's dimensions
\* that holds f's triplets, each at its 0-based coordinate, and nothing else.
ReadGives(m, f) ==
    LET r == read(m, f)
    IN  /\ r.err = "none"
        /\ ~is_compressed(r.m)
        /\ r.m.numrows = f.R
        /\ r.m.numcols = f.C
        /\ DOMAIN r.m.uncompressed_data =
              {<<f.lines[p].r - 1, f.lines[p].c - 1>> : p \in 1..Len(f.lines)}
        /\ \A i \in 1..f.R, j \in 1..f.C :
              get(r.m, i - 1, j - 1) = [err |-> "none", val |-> Triplet(f, i, j)]

\* The file of header 3 3 2 with the triplets 1 1 5.0 and 3 2 -1.0.
S5_file == File(TRUE, TRUE, TRUE, 3, 3, <<Line(1, 1, 5), Line(3, 2, 0 - 1)>>)

\* ---------------------------------------------------------------- claims

\* C1: in the uncompressed state a mutable access at (i,j) with i >= rows or
\* j >= cols leaves the dimensions equal to (max(rows,i+1), max(cols,j+1)).
C1_ImplicitGrow ==
    [][\A i \in Idx, j \in Idx, v \in Val :
          (~compressed /\ OutOfBounds(M, i, j) /\ Set(i, j, v))
             => /\ numrows' = Max2(numrows, i + 1)
                /\ numcols' = Max2(numcols, j + 1)]_vars

\* C2: after an out-of-bounds mutable write at (i,j) in the uncompressed
\* state, every entry the read-only accessor returned before the write is
\* still returned by it at the same coordinates with the same value, and the
\* value written is returned at (i,j).
C2_GrowKeepsEntries ==
    [][\A i \in Idx, j \in Idx, v \in Val :
          (~compressed /\ OutOfBounds(M, i, j) /\ Set(i, j, v))
             => /\ \A c \in DOMAIN uncompressed_data :
                      get(M, c[1], c[2]).err = "none"
                         => get(MNext, c[1], c[2]) = get(M, c[1], c[2])
                /\ get(MNext, i, j) = [err |-> "none", val |-> v]]_vars

\* C3 (I4): in every state reached from the constructor by mutable accesses,
\* compress and uncompress, every stored coordinate (i,j) has i < rows and
\* j < cols, in the map and in the compressed vectors alike.
C3_StoredInBounds ==
    \A c \in StoredCoords(M) : c[1] < numrows /\ c[2] < numcols

\* C4: compress followed by uncompress gives back an uncompressed matrix with
\* the same dimensions and exactly the same entries.
C4_RoundTrip ==
    ~compressed => uncompress(order, compress(order, M)) = M

\* C5: after compress the inner vector has major+1 offsets, inner[0] = 0,
\* inner never decreases, inner[major] = len(outer) = len(data), and a stripe
\* with no entries gives two equal consecutive offsets; the shape stays while
\* the matrix is compressed.
C5_PackedShape ==
    /\ ~compressed =>
          LET p == compress(order, M)
          IN  /\ is_compressed(p)
              /\ PackedShape(p)
              /\ \A s \in 0..(Major(M) - 1) :
                    (\A c \in DOMAIN uncompressed_data :
                        (IF order = "RowOrdering" THEN c[1] ELSE c[2]) # s)
                       => At(p.compressed_inner, s) = At(p.compressed_inner, s + 1)
    /\ compressed => PackedShape(M)

C5_Witness ==
    /\ last = Call("compress", "none")
    /\ compressed
    /\ Len(compressed_outer) > 0
    /\ \E s \in 0..(Major(M) - 1) :
          At(compressed_inner, s) = At(compressed_inner, s + 1)

\* C6: after compress of a matrix reached by the constructor, mutable
\* accesses, compress and uncompress, every stripe of outer is strictly
\* increasing and every index in it is below cols (row-major) or rows
\* (column-major).
C6_StripesSortedInRange ==
    ~compressed => StripesSorted(compress(order, M))

\* C7: for every in-bounds (i,j) the read-only accessor returns the same
\* value before and after compress and before and after uncompress, in both
\* storage orders, and the additive identity where no entry is stored.
C7_AccessorConsistency ==
    LET packed   == compress(order, M)
        expanded == uncompress(order, M)
        stored   == StoredCoords(M)
    IN  \A i \in 0..(numrows - 1), j \in 0..(numcols - 1) :
            /\ get(M, i, j).err = "none"
            /\ get(packed, i, j) = get(M, i, j)
            /\ get(expanded, i, j) = get(M, i, j)
            /\ <<i, j>> \notin stored => get(M, i, j).val = 0

C7_Witness ==
    /\ last = Call("compress", "none")
    /\ compressed
    /\ \E i \in 0..(numrows - 1), j \in 0..(numcols - 1) :
          /\ <<i, j>> \in StoredCoords(M)
          /\ get(M, i, j).val # 0
    /\ \E i \in 0..(numrows - 1), j \in 0..(numcols - 1) :
          <<i, j>> \notin StoredCoords(M)

\* C8 (I1): in every state reached by the public operations the three
\* compressed vectors are empty while the matrix is uncompressed and the map
\* is empty while it is compressed; read on a compressed matrix puts nothing
\* into the map.
C8_RepresentationExclusive ==
    /\ ~compressed =>
          /\ compressed_inner = <<>>
          /\ compressed_outer = <<>>
          /\ compressed_data = <<>>
    /\ compressed => DOMAIN uncompressed_data = {}

\* C9: in the compressed state a mutable access at (i,j) that is out of
\* bounds, or in bounds with no stored entry, throws std::out_of_range and
\* leaves the dimensions, the flag and the three vectors as they were.
C9_CompressedRejectsInsert ==
    compressed =>
        LET stored == PackedCoords(M)
        IN  \A i \in Idx, j \in Idx :
                (OutOfBounds(M, i, j) \/ <<i, j>> \notin stored)
                   => /\ operator_call(order, M, i, j).err = "out_of_range"
                      /\ operator_call(order, M, i, j).m = M

C9_Witness ==
    /\ last = Call("set", "out_of_range")
    /\ compressed
    /\ \E i \in Idx, j \in Idx : OutOfBounds(M, i, j)
    /\ \E i \in Idx, j \in Idx :
          ~OutOfBounds(M, i, j) /\ <<i, j>> \notin PackedCoords(M)

\* C10: in the compressed state a mutable access at an in-bounds (i,j) whose
\* entry is stored succeeds; assigning v through the reference makes the
\* read-only accessor return v at (i,j), leaves the value at every other
\* in-bounds coordinate unchanged, and leaves inner and outer unchanged.
C10_CompressedOverwrite ==
    compressed =>
        \A c \in PackedCoords(M), v \in Val :
            (c[1] \in Idx /\ c[2] \in Idx /\ ~OutOfBounds(M, c[1], c[2]))
               => LET i  == c[1]
                      j  == c[2]
                      r  == operator_call(order, M, i, j)
                      m2 == Assign(r.m, r.ref, v)
                  IN  /\ r.err = "none"
                      /\ get(m2, i, j) = [err |-> "none", val |-> v]
                      /\ \A i2 \in 0..(numrows - 1), j2 \in 0..(numcols - 1) :
                            <<i2, j2>> # <<i, j>>
                               => get(m2, i2, j2) = get(M, i2, j2)
                      /\ m2.compressed_inner = compressed_inner
                      /\ m2.compressed_outer = compressed_outer
                      /\ m2.numrows = numrows /\ m2.numcols = numcols
                      /\ is_compressed(m2)

C10_Witness ==
    /\ last = Call("set", "none")
    /\ compressed
    /\ Len(compressed_data) > 1
    /\ \E k \in 1..Len(compressed_data) : compressed_data[k] = 0
    /\ \E k \in 1..Len(compressed_data) : compressed_data[k] # 0

\* C11: the read-only accessor called with i >= rows or j >= cols throws
\* std::out_of_range, whether the matrix is uncompressed or compressed (the
\* matrix of the state, its compressed and its uncompressed form); being a
\* const member it returns an exception or a value and no matrix.
C11_ConstAccessOutOfRange ==
    LET packed   == compress(order, M)
        expanded == uncompress(order, M)
    IN  \A i \in Dim, j \in Dim :
            OutOfBounds(M, i, j)
               => /\ get(M, i, j).err = "out_of_range"
                  /\ OutOfBounds(packed, i, j) => get(packed, i, j).err = "out_of_range"
                  /\ OutOfBounds(expanded, i, j) => get(expanded, i, j).err = "out_of_range"

C11_Witness ==
    /\ compressed
    /\ Len(compressed_data) > 0
    /\ \E i \in Dim, j \in Dim :
          /\ i < numrows
          /\ j >= numcols
          /\ get(M, i, j).err = "out_of_range"
    /\ \E i \in Dim, j \in Dim : get(M, i, j).err = "none"

\* C12: for every reachable uncompressed matrix and every vector of length
\* cols, the product computed on the map and the product computed after
\* compress are both defined and equal component by component.
C12_ProductRepresentationInvariant ==
    ~compressed =>
        LET packed == compress(order, M)
        IN  \A vec \in [1..numcols -> Val] :
                LET before == operator_times(order, M, vec)
                    after  == operator_times(order, packed, vec)
                IN  /\ ~before.ub
                    /\ ~after.ub
                    /\ before.y = after.y

\* C13: whenever a product is called on a matrix whose stored entries are all
\* in bounds, for every vector v of length cols the product is the vector y of length rows with y[i] the sum
\* over j of A[i,j] * v[j], in the kernel of the map and in the two compressed
\* kernels (CSR, CSC) alike; the matrix of main() times [1,2,3] is
\* [10,14,34,2,2].
C13_ProductValue ==
    /\ S1_products = {Product(<<10, 14, 34, 2, 2>>)}
    /\ (last.op = "times" /\ InBounds(M)) =>
          LET expanded == uncompress(order, M)
              csr      == compress("RowOrdering", expanded)
              csc      == compress("ColumnOrdering", expanded)
          IN  \A vec \in [1..numcols -> Val] :
                  LET y == Product(DenseProduct(M, vec))
                  IN  /\ Len(y.y) = numrows
                      /\ operator_times(order, M, vec) = y
                      /\ operator_times("RowOrdering", expanded, vec) = y
                      /\ operator_times("ColumnOrdering", expanded, vec) = y
                      /\ operator_times("RowOrdering", csr, vec) = y
                      /\ operator_times("ColumnOrdering", csc, vec) = y

\* A product has just returned on a matrix with a row of two stored entries
\* of opposite sign and an empty row.
C13_Witness ==
    /\ last = Call("times", "none")
    /\ InBounds(M)
    /\ numrows > 1
    /\ \E i \in 0..(numrows - 1) :
          /\ <<i, 0>> \in StoredCoords(M)
          /\ <<i, 1>> \in StoredCoords(M)
          /\ get(M, i, 0).val > 0
          /\ get(M, i, 1).val < 0
    /\ \E i \in 0..(numrows - 1) : \A c \in StoredCoords(M) : c[1] # i

\* C14: matrix times a one-column matrix B with as many rows as the left
\* operand has columns gives what the matrix-vector product gives with the
\* dense vector v[i] = B(i,0) (the additive identity where B stores nothing),
\* whether B is uncompressed or compressed.
C14_OneColumnProduct ==
    \A B \in Operands(order) :
        (B.numcols = 1 /\ B.numrows = numcols)
           => operator_times_matrix(order, M, B)
                 = operator_times(order, M, DenseColumn(order, B))

\* C15: a matrix-vector product called with a vector whose length is not the
\* column count ends with an exception: it neither returns a result nor
\* reads outside the vector.
C15_ProductLengthMismatch ==
    [][\A vec \in Vectors :
          (Len(vec) # numcols /\ Times(vec))
             => last'.err \notin {"none", "abort"}]_vars

\* C16: for each norm kind, the norm of every reachable uncompressed matrix
\* and the norm of the same matrix after compress are both defined and equal
\* (Frobenius: the same square root, that is equal sums of squares).
C16_NormRepresentationInvariant ==
    ~compressed =>
        LET packed == compress(order, M)
        IN  \A N \in NormType :
                LET before == norm(order, M, N)
                    after  == norm(order, packed, N)
                IN  /\ ~before.ub
                    /\ ~after.ub
                    /\ before.val = after.val

C18_EmptyNormIsZero ==
    (StoredCoords(M) = {} \/ numrows = 0 \/ numcols = 0)
       => /\ norm(order, M, "One") = NormIs(0)
          /\ norm(order, M, "Infinity") = NormIs(0)
          /\ norm(order, M, "Frobenius") = NormIs(Sqrt(0))

\* C19: read of a file that cannot be opened ends with an exception the
\* caller sees and leaves the matrix as it was.
C19_ReadUnopenableFails ==
    [][\A f \in Files :
          (~f.open /\ Read(f)) => (last'.err # "none" /\ MNext = M)]_vars

\* C20: read of a file whose first line does not start with %%MatrixMarket
\* ends with an exception; the dimensions are not changed and no triplet of
\* the file is inserted.
C20_ReadNoBannerFails ==
    [][\A f \in Files :
          (f.open /\ ~f.banner /\ Read(f)) => (last'.err # "none" /\ MNext = M)]_vars

\* C21: read of a well-formed file with size line R C NNZ into a freshly
\* constructed matrix gives rows = R, cols = C, every triplet (r,c,v) at
\* (r-1,c-1) with value v and the additive identity at every other in-bounds
\* coordinate; header 3 3 2 with 1 1 5.0 and 3 2 -1.0 gives A[0,0] = 5 and
\* A[2,1] = -1.
C21_ReadWellFormed ==
    last.op = "new" =>
        /\ \A f \in Files : WellFormed(f) => ReadGives(M, f)
        /\ ReadGives(M, S5_file)
        /\ get(read(M, S5_file).m, 0, 0).val = 5
        /\ get(read(M, S5_file).m, 2, 1).val = 0 - 1

\* A read has just returned two entries into a matrix that has room for more.
C21_Witness ==
    /\ last = Call("read", "none")
    /\ ~compressed
    /\ numrows = MaxIdx + 1
    /\ numcols = MaxIdx + 1
    /\ uncompressed_data = (<<0, 0>> :> MaxVal @@ <<MaxIdx, MaxIdx - 1>> :> MaxVal)

\* C22: compress of a compressed matrix and uncompress of an uncompressed
\* one change nothing (flag, dimensions, map and the three vectors), so
\* compress twice is compress once and uncompress twice is uncompress once.
C22_NoOpInTargetState ==
    /\ compressed => compress(order, M) = M
    /\ ~compressed => uncompress(order, M) = M
    /\ compress(order, compress(order, M)) = compress(order, M)
    /\ uncompress(order, uncompress(order, M)) = uncompress(order, M)

\* A compress has returned on a compressed matrix that stores entries.
C22_Witness ==
    /\ last = Call("compress", "none")
    /\ compressed
    /\ Len(compressed_data) > 1
    /\ numrows > 1

\* C23: compress of an uncompressed matrix with no stored entry completes
\* without reading an element of the empty map and leaves the matrix
\* compressed with inner made of major+1 zeros and outer and data empty.
C23_CompressEmpty ==
    [][(~compressed /\ DOMAIN uncompressed_data = {} /\ Compress)
          => /\ last'.err = "none"
             /\ ~compress_derefs_end(M)
             /\ compressed'
             /\ compressed_inner' = [s \in 1..(Major(M) + 1) |-> 0]
             /\ compressed_outer' = <<>>
             /\ compressed_data' = <<>>]_vars

====
